---- MODULE Spec2Model ----
(***************************************************************************)
(* Model of the Modmail message router (src/main.go, the messageCreate     *)
(* handler of lines 229-329, and logToDB).  One handler invocation runs    *)
(* per inbound message event; invocations may overlap and each one         *)
(* suspends at every call to the chat platform or to the store.            *)
(*                                                                         *)
(* Strings are sequences of one-character strings, so that substring       *)
(* search, prefix tests, lower-casing and name cleaning are computed.      *)
(***************************************************************************)
EXTENDS Integers, Sequences, FiniteSets

(***************************************************************************)
(* Bounds of the model.                                                    *)
(***************************************************************************)
MaxEvents == 2
MaxFail == 1

(***************************************************************************)
(* String helpers (Go's strings package and the regexp of line 234).       *)
(***************************************************************************)
LowerLetters ==
  <<"a","b","c","d","e","f","g","h","i","j","k","l","m",
    "n","o","p","q","r","s","t","u","v","w","x","y","z">>

UpperLetters ==
  <<"A","B","C","D","E","F","G","H","I","J","K","L","M",
    "N","O","P","Q","R","S","T","U","V","W","X","Y","Z">>

Digits == {"0","1","2","3","4","5","6","7","8","9"}

Range(s) == {s[i] : i \in 1..Len(s)}

ToLowerChar(c) ==
  IF \E i \in 1..Len(UpperLetters) : UpperLetters[i] = c
    THEN LowerLetters[CHOOSE i \in 1..Len(UpperLetters) : UpperLetters[i] = c]
    ELSE c

ToLower(s) == [i \in 1..Len(s) |-> ToLowerChar(s[i])]

IsAlnum(c) == c \in Range(LowerLetters) \cup Range(UpperLetters) \cup Digits

Contains(s, sub) ==
  \E i \in 1..(Len(s) - Len(sub) + 1) : SubSeq(s, i, i + Len(sub) - 1) = sub

HasPrefix(s, p) == Len(s) >= Len(p) /\ SubSeq(s, 1, Len(p)) = p

TrimPrefix(s, p) == IF HasPrefix(s, p) THEN SubSeq(s, Len(p) + 1, Len(s)) ELSE s

\* reg.ReplaceAllString(name, "") with reg = [^a-zA-Z0-9]+, then ToLower
CleanName(display) == ToLower(SelectSeq(display, IsAlnum))

(***************************************************************************)
(* Literals of the program.                                                *)
(***************************************************************************)
TopicPrefix == <<"M","o","d","m","a","i","l"," ","I","D",":"," ">>

NamePrefix == <<"t","i","c","k","e","t","-">>

CloseCommand == <<"!","c","l","o","s","e">>

ChannelName(display) == NamePrefix \o CleanName(display)

\* The topic without its prefix.
TicketTopicBare(authorID) == authorID

\* Line 250: the topic given to a new ticket channel.
TicketTopic(authorID) == TopicPrefix \o authorID

(***************************************************************************)
(* Configuration and the platform's identities.                            *)
(***************************************************************************)
GuildID == "G"

CategoryID == "CAT"

OtherCategory == "MISC"

BotID == <<"0">>

StaffID == <<"7">>

\* The end users: identifier and display name.  "1" is a substring of "12",
\* and "Bob!" and "bob" clean to the same channel name.
Users ==
  << [id |-> <<"1">>,     name |-> <<"B","o","b","!">>],
     [id |-> <<"1","2">>, name |-> <<"b","o","b">>] >>

UserIDs == {Users[i].id : i \in 1..Len(Users)}

UserIndex(u) == CHOOSE i \in 1..Len(Users) : Users[i].id = u

\* Identifier of the direct-message channel between the bot and a user
\* (negative, so that it is never a workspace channel's identifier).
DMChannelOf(u) == 0 - UserIndex(u)

\* A nil *discordgo.Channel.
NoChannel == 0

Hi == <<"h","i">>

GuildContents == { <<"!","C","l","o","s","e">>, Hi }


\* Text and attachment count of the workspace messages staff may send.
GuildMessages ==
  { [content |-> c, attach |-> 0] : c \in GuildContents }
    \cup { [content |-> Hi, attach |-> 1] }

\* Workspace channels that exist before the bot starts and are not tickets:
\* one for each reason line 290 and lines 294-298 reject a channel.
NonTicketChannels ==
  { [id |-> 1, name |-> <<"c","h","a","t">>, parent |-> CategoryID,
     topic |-> TopicPrefix \o <<"9">>],
    [id |-> 1, name |-> NamePrefix \o <<"x">>, parent |-> OtherCategory,
     topic |-> TopicPrefix \o <<"9">>],
    [id |-> 1, name |-> NamePrefix \o <<"x">>, parent |-> CategoryID,
     topic |-> <<"I","D",":"," ","9">>],
    [id |-> 1, name |-> NamePrefix \o <<"x">>, parent |-> CategoryID,
     topic |-> TopicPrefix] }

(***************************************************************************)
(* State.                                                                  *)
(*   channels  the staff workspace's channels, in the order GuildChannels  *)
(*             lists them                                                  *)
(*   nextId    the identifier the platform gives the next created channel  *)
(*   events    the message events received so far; event e is handled by   *)
(*             invocation e                                                *)
(*   inv       per invocation: position (pc) and locals of messageCreate   *)
(*   trace     per invocation: the calls it has made, with their outcome   *)
(*   store     the documents of the messages collection                    *)
(*   crashed   the process has died of a nil-pointer panic                 *)
(*   fails     number of call failures injected so far                     *)
(*   oplog     number of lines written to the operator's log (package log) *)
(*             since the handlers were registered                          *)
(***************************************************************************)
VARIABLES channels, nextId, events, inv, trace, store, crashed, fails, oplog

vars == <<channels, nextId, events, inv, trace, store, crashed, fails, oplog>>

ChannelIDs == {channels[i].id : i \in 1..Len(channels)}

ChannelByID(id) == channels[CHOOSE i \in 1..Len(channels) : channels[i].id = id]

\* The outcomes (success or not) a call can have: a call that cannot succeed
\* fails; one that can succeed may also fail while the failure budget lasts.
Outcomes(possible) ==
  IF ~possible THEN {FALSE}
  ELSE IF fails < MaxFail THEN {TRUE, FALSE} ELSE {TRUE}

Charge(possible, succeeded) ==
  IF possible /\ ~succeeded THEN fails + 1 ELSE fails

Call(op, to, kind, ok) ==
  [op |-> op, to |-> to, kind |-> kind, ok |-> ok, uid |-> <<>>, file |-> FALSE]

InsertCall(uid, sender, hasFile, ok) ==
  [op |-> "InsertOne", to |-> NoChannel, kind |-> sender, ok |-> ok,
   uid |-> uid, file |-> hasFile]

\* Invocation e makes `call` and continues at pc with the given locals.
Advance(e, call, pc, target, userID, dm) ==
  /\ inv' = [inv EXCEPT ![e] = [pc |-> pc, target |-> target,
                                userID |-> userID, dm |-> dm]]
  /\ trace' = [trace EXCEPT ![e] = Append(@, call)]

Goto(e, call, pc) ==
  Advance(e, call, pc, inv[e].target, inv[e].userID, inv[e].dm)

\* The bot keeps no state of its own: at start the workspace may already hold
\* the open ticket an earlier run of lines 249-251 created for a user.
OpenTicket(id, u) ==
  [id |-> id, name |-> ChannelName(Users[u].name), parent |-> CategoryID,
   topic |-> TicketTopic(Users[u].id)]

Init ==
  /\ \E c \in NonTicketChannels :
       \/ channels = <<c>> /\ nextId = 2
       \/ channels = <<c, OpenTicket(2, 2)>> /\ nextId = 3
  /\ events = <<>>
  /\ inv = <<>>
  /\ trace = <<>>
  /\ store = <<>>
  /\ crashed = FALSE
  /\ fails = 0
  /\ oplog = 0

(***************************************************************************)
(* The handler's local computations.                                       *)
(***************************************************************************)
\* FindTarget comparing the topic with the identifier instead of searching it.
FindTargetByEquality(chans, authorID) ==
  LET hits == {i \in 1..Len(chans) : chans[i].topic = authorID}
  IN  IF hits = {} THEN NoChannel
      ELSE chans[CHOOSE i \in hits : \A j \in hits : i <= j].id

\* Lines 239-245: the first listed channel whose topic contains the author's
\* identifier, or nil.
FindTarget(chans, authorID) ==
  LET hits == {i \in 1..Len(chans) : Contains(chans[i].topic, authorID)}
  IN  IF hits = {} THEN NoChannel
      ELSE chans[CHOOSE i \in hits : \A j \in hits : i <= j].id

\* IsTicketChannel without the test of the parent category.
IsTicketChannelByName(ch) == HasPrefix(ch.name, NamePrefix)

\* Line 290: the channel resolved for a workspace message is accepted.
IsTicketChannel(ch) == ch.parent = CategoryID /\ HasPrefix(ch.name, NamePrefix)

\* Lines 294-297: the owner's identifier taken from the topic, or "".
ExtractUserID(topic) ==
  IF HasPrefix(topic, TopicPrefix) THEN TrimPrefix(topic, TopicPrefix) ELSE <<>>

\* Line 300.
IsCloseCommand(content) == ToLower(content) = CloseCommand

\* HasFile with the comparison off by one.
HasFileOffByOne(m) == m.attach > 1

\* len(m.Attachments) > 0, the hasFile argument of logToDB (lines 281, 320).
HasFile(m) == m.attach > 0

\* AfterForward with the log entry written only beside the reaction.
AfterForwardLogOnSuccess(ok) == IF ok THEN "react" ELSE "done"

\* Lines 275-281: the reaction is added only when the send succeeded; the
\* log entry is written in both cases.
AfterForward(ok) == IF ok THEN "react" ELSE "log"

\* Dispatch without the test of line 230.
DispatchAnyAuthor(m) == IF m.guildID = "" THEN "list" ELSE "resolve"

\* Lines 230 and 233: the bot's own messages are discarded, a message with
\* no workspace identifier takes case A, any other case B.
Dispatch(m) ==
  IF m.author = BotID THEN "done"
  ELSE IF m.guildID = "" THEN "list" ELSE "resolve"

Active(e) == inv[e].pc \notin {"done", "panic"}

Running == {e \in 1..Len(events) : Active(e)}

\* Invocation e is suspended before the call named pc, in a live process.
At(e, pc) == ~crashed /\ e <= Len(events) /\ inv[e].pc = pc

Invocations == 1..MaxEvents

(***************************************************************************)
(* Arrival of message events.  The gateway client starts one invocation    *)
(* of messageCreate per event; lines 230 and 233 decide its branch before  *)
(* the first call.                                                         *)
(***************************************************************************)
Start(m) ==
  /\ ~crashed
  /\ Len(events) < MaxEvents
  /\ events' = Append(events, m)
  /\ inv' = Append(inv, [pc |-> Dispatch(m), target |-> NoChannel,
                         userID |-> <<>>, dm |-> NoChannel])
  /\ trace' = Append(trace, <<>>)
  /\ UNCHANGED <<oplog, channels, nextId, store, crashed, fails>>

\* A user writes to the bot directly.
ReceiveDirect ==
  \E u \in 1..Len(Users), a \in {0, 1} :
    Start([content |-> Hi, attach |-> a, guildID |-> "",
           author |-> Users[u].id, username |-> Users[u].name,
           channelID |-> DMChannelOf(Users[u].id)])

\* Staff write in a channel of the workspace.
ReceiveGuild ==
  \E c \in ChannelIDs, g \in GuildMessages :
    Start([content |-> g.content, attach |-> g.attach, guildID |-> GuildID,
           author |-> StaffID, username |-> <<"m","o","d">>, channelID |-> c])

\* The bot's own message comes back as an event (line 230 discards it).
ReceiveOwn ==
  \E c \in ChannelIDs \cup {DMChannelOf(Users[1].id)} :
    Start([content |-> Hi, attach |-> 0,
           guildID |-> IF c \in ChannelIDs THEN GuildID ELSE "",
           author |-> BotID, username |-> <<"b","o","t">>, channelID |-> c])

(***************************************************************************)
(* Case A, lines 233-283: a direct message.                                *)
(***************************************************************************)
\* Line 238 and the scan of lines 239-245.  The error is dropped: a failed
\* listing is scanned as an empty list.
ListChannels(e) ==
  /\ At(e, "list")
  /\ \E ok \in Outcomes(TRUE) :
       LET listed == IF ok THEN channels ELSE <<>>
           found == FindTarget(listed, events[e].author)
       IN  /\ Advance(e, Call("GuildChannels", NoChannel, "", ok),
                      IF found = NoChannel THEN "create" ELSE "forward",
                      found, <<>>, NoChannel)
           /\ fails' = Charge(TRUE, ok)
  /\ UNCHANGED <<oplog, channels, nextId, events, store, crashed>>

\* Lines 249-251.  The error is dropped: on failure targetChannel is nil.
CreateChannel(e) ==
  /\ At(e, "create")
  /\ \E ok \in Outcomes(TRUE) :
       /\ Advance(e, Call("GuildChannelCreateComplex",
                          IF ok THEN nextId ELSE NoChannel, "", ok),
                  "ack", IF ok THEN nextId ELSE NoChannel, <<>>, NoChannel)
       /\ channels' = IF ok
            THEN Append(channels,
                   [id |-> nextId, name |-> ChannelName(events[e].username),
                    parent |-> CategoryID,
                    topic |-> TicketTopic(events[e].author)])
            ELSE channels
       /\ nextId' = IF ok THEN nextId + 1 ELSE nextId
       /\ fails' = Charge(TRUE, ok)
  /\ UNCHANGED <<oplog, events, store, crashed>>

\* Lines 254-259, then the evaluation of targetChannel.ID at line 262: with
\* a nil targetChannel the invocation panics and the process dies.
NotifyUser(e) ==
  /\ At(e, "ack")
  /\ \E ok \in Outcomes(TRUE) :
       /\ Goto(e, Call("ChannelMessageSendEmbed", events[e].channelID,
                       "created", ok),
               IF inv[e].target = NoChannel THEN "panic" ELSE "notify")
       /\ fails' = Charge(TRUE, ok)
  /\ crashed' = (inv[e].target = NoChannel)
  /\ UNCHANGED <<oplog, channels, nextId, events, store>>

\* Lines 262-264.
NotifyStaff(e) ==
  /\ At(e, "notify")
  /\ LET can == inv[e].target \in ChannelIDs
     IN  \E ok \in Outcomes(can) :
           /\ Goto(e, Call("ChannelMessageSendEmbed", inv[e].target, "new", ok),
                   "forward")
           /\ fails' = Charge(can, ok)
  /\ UNCHANGED <<oplog, channels, nextId, events, store, crashed>>

\* Lines 268-276.
ForwardToStaff(e) ==
  /\ At(e, "forward")
  /\ LET can == inv[e].target \in ChannelIDs
     IN  \E ok \in Outcomes(can) :
           /\ Goto(e, Call("ChannelMessageSendEmbed", inv[e].target,
                           "forward", ok),
                   AfterForward(ok))
           /\ fails' = Charge(can, ok)
  /\ UNCHANGED <<oplog, channels, nextId, events, store, crashed>>

\* Line 278.
ReactInbox(e) ==
  /\ At(e, "react")
  /\ LET can == inv[e].target \in ChannelIDs
     IN  \E ok \in Outcomes(can) :
           /\ Goto(e, Call("MessageReactionAdd", inv[e].target, "inbox", ok),
                   "log")
           /\ fails' = Charge(can, ok)
  /\ UNCHANGED <<oplog, channels, nextId, events, store, crashed>>

\* logToDB with a store that keeps the latest entry only.
logToDBReplace(e, uid, sender, hasFile) ==
  \E ok \in Outcomes(TRUE) :
    /\ Goto(e, InsertCall(uid, sender, hasFile, ok), "done")
    /\ store' = IF ok
         THEN <<[sender |-> sender, hasFile |-> hasFile, userID |-> uid]>>
         ELSE store
    /\ fails' = Charge(TRUE, ok)

\* Lines 326-329: the entry is built and handed to InsertOne, whose result
\* is dropped.
logToDB(e, uid, sender, hasFile) ==
  \E ok \in Outcomes(TRUE) :
    /\ Goto(e, InsertCall(uid, sender, hasFile, ok), "done")
    /\ store' = IF ok
         THEN Append(store, [sender |-> sender, hasFile |-> hasFile,
                             userID |-> uid])
         ELSE store
    /\ fails' = Charge(TRUE, ok)

\* Line 281.
LogUser(e) ==
  /\ At(e, "log")
  /\ logToDB(e, events[e].author, "user", HasFile(events[e]))
  /\ UNCHANGED <<oplog, channels, nextId, events, crashed>>

(***************************************************************************)
(* Case B, lines 285-324: a message in the workspace.                      *)
(***************************************************************************)
\* Lines 290-300 on the resolved channel: where the invocation continues.
RouteGuild(ch, content) ==
  IF ~IsTicketChannel(ch) \/ ExtractUserID(ch.topic) = <<>> THEN "done"
  ELSE IF IsCloseCommand(content) THEN "delete"
  ELSE "fwdDm"

\* Lines 286-300.  The channel is taken from the client's state or, failing
\* that, fetched; when both fail ch is nil and the message is dropped.
ResolveChannel(e) ==
  /\ At(e, "resolve")
  /\ LET can == events[e].channelID \in ChannelIDs
     IN  \E ok \in Outcomes(can) :
           LET ch == ChannelByID(events[e].channelID)
           IN  /\ Advance(e, Call("Channel", events[e].channelID, "", ok),
                          IF ok THEN RouteGuild(ch, events[e].content)
                                ELSE "done",
                          NoChannel,
                          IF ok THEN ExtractUserID(ch.topic) ELSE <<>>,
                          NoChannel)
               /\ fails' = Charge(can, ok)
  /\ UNCHANGED <<oplog, channels, nextId, events, store, crashed>>

\* Line 301.  The error is dropped.
DeleteChannel(e) ==
  /\ At(e, "delete")
  /\ LET can == events[e].channelID \in ChannelIDs
     IN  \E ok \in Outcomes(can) :
           /\ Goto(e, Call("ChannelDelete", events[e].channelID, "", ok),
                   "closeDm")
           /\ channels' = IF ok
                THEN SelectSeq(channels,
                               LAMBDA c : c.id # events[e].channelID)
                ELSE channels
           /\ fails' = Charge(can, ok)
  /\ UNCHANGED <<oplog, nextId, events, store, crashed>>

\* Line 302, then the evaluation of dm.ID at line 303.  The error is
\* dropped: on failure dm is nil, the invocation panics and the process dies.
CloseResolveDM(e) ==
  /\ At(e, "closeDm")
  /\ LET can == inv[e].userID \in UserIDs
     IN  \E ok \in Outcomes(can) :
           /\ Advance(e, Call("UserChannelCreate", NoChannel, "", ok),
                      IF ok THEN "closeSend" ELSE "panic",
                      NoChannel, inv[e].userID,
                      IF ok THEN DMChannelOf(inv[e].userID) ELSE NoChannel)
           /\ crashed' = ~ok
           /\ fails' = Charge(can, ok)
  /\ UNCHANGED <<oplog, channels, nextId, events, store>>

\* Line 303.
CloseNotice(e) ==
  /\ At(e, "closeSend")
  /\ \E ok \in Outcomes(TRUE) :
       /\ Goto(e, Call("ChannelMessageSend", inv[e].dm, "closed", ok), "done")
       /\ fails' = Charge(TRUE, ok)
  /\ UNCHANGED <<oplog, channels, nextId, events, store, crashed>>

\* Lines 308-309.
ForwardResolveDM(e) ==
  /\ At(e, "fwdDm")
  /\ LET can == inv[e].userID \in UserIDs
     IN  \E ok \in Outcomes(can) :
           /\ Advance(e, Call("UserChannelCreate", NoChannel, "", ok),
                      IF ok THEN "fwdSend" ELSE "done",
                      NoChannel, inv[e].userID,
                      IF ok THEN DMChannelOf(inv[e].userID) ELSE NoChannel)
           /\ fails' = Charge(can, ok)
  /\ UNCHANGED <<oplog, channels, nextId, events, store, crashed>>

\* Lines 311-317 and 321.
ForwardToUser(e) ==
  /\ At(e, "fwdSend")
  /\ \E ok \in Outcomes(TRUE) :
       /\ Goto(e, Call("ChannelMessageSendEmbed", inv[e].dm, "staff", ok),
               IF ok THEN "ackReact" ELSE "failNote")
       /\ fails' = Charge(TRUE, ok)
  /\ UNCHANGED <<oplog, channels, nextId, events, store, crashed>>

\* Line 319.
ReactCheck(e) ==
  /\ At(e, "ackReact")
  /\ LET can == events[e].channelID \in ChannelIDs
     IN  \E ok \in Outcomes(can) :
           /\ Goto(e, Call("MessageReactionAdd", events[e].channelID,
                           "check", ok),
                   "logStaff")
           /\ fails' = Charge(can, ok)
  /\ UNCHANGED <<oplog, channels, nextId, events, store, crashed>>

\* Line 320.
LogStaff(e) ==
  /\ At(e, "logStaff")
  /\ logToDB(e, inv[e].userID, "staff", HasFile(events[e]))
  /\ UNCHANGED <<oplog, channels, nextId, events, crashed>>

\* Line 322.
FailNotice(e) ==
  /\ At(e, "failNote")
  /\ LET can == events[e].channelID \in ChannelIDs
     IN  \E ok \in Outcomes(can) :
           /\ Goto(e, Call("ChannelMessageSend", events[e].channelID,
                           "failed", ok),
                   "done")
           /\ fails' = Charge(can, ok)
  /\ UNCHANGED <<oplog, channels, nextId, events, store, crashed>>

(***************************************************************************)
(* Specifications.                                                         *)
(***************************************************************************)
Receive == ReceiveDirect \/ ReceiveGuild \/ ReceiveOwn

Handle ==
  \/ \E e \in Invocations : ListChannels(e)
  \/ \E e \in Invocations : CreateChannel(e)
  \/ \E e \in Invocations : NotifyUser(e)
  \/ \E e \in Invocations : NotifyStaff(e)
  \/ \E e \in Invocations : ForwardToStaff(e)
  \/ \E e \in Invocations : ReactInbox(e)
  \/ \E e \in Invocations : LogUser(e)
  \/ \E e \in Invocations : ResolveChannel(e)
  \/ \E e \in Invocations : DeleteChannel(e)
  \/ \E e \in Invocations : CloseResolveDM(e)
  \/ \E e \in Invocations : CloseNotice(e)
  \/ \E e \in Invocations : ForwardResolveDM(e)
  \/ \E e \in Invocations : ForwardToUser(e)
  \/ \E e \in Invocations : ReactCheck(e)
  \/ \E e \in Invocations : LogStaff(e)
  \/ \E e \in Invocations : FailNotice(e)

\* Invocations overlap freely: the client starts each handler in its own
\* goroutine.
Next == Receive \/ Handle

Spec == Init /\ [][Next]_vars

\* Invocations do not overlap: an event arrives only when every earlier
\* invocation has returned.
Idle == Running = {}

NextSerial ==
  \/ Idle /\ ReceiveDirect
  \/ Idle /\ ReceiveGuild
  \/ Idle /\ ReceiveOwn
  \/ Handle

SpecSerial == Init /\ [][NextSerial]_vars

(***************************************************************************)
(* Vocabulary of the properties.                                           *)
(***************************************************************************)
Received == 1..Len(events)

IsDirect(e) == events[e].author # BotID /\ events[e].guildID = ""

IsGuild(e) == events[e].author # BotID /\ events[e].guildID # ""

Returned(e) == inv[e].pc = "done"

\* The calls of invocation e to the operation op.
CallsOf(e, op) == SelectSeq(trace[e], LAMBDA c : c.op = op)

\* The messages of one kind invocation e has sent, and those that arrived.
Sends(e, kind) ==
  SelectSeq(trace[e],
            LAMBDA c : /\ c.op \in {"ChannelMessageSend", "ChannelMessageSendEmbed"}
                       /\ c.kind = kind)

Delivered(e, kind) == SelectSeq(Sends(e, kind), LAMBDA c : c.ok)

\* The log entries invocation e has handed to the store.
Inserts(e) == CallsOf(e, "InsertOne")

\* The open ticket channels owned by u: those whose topic embeds u.
OwnedBy(u) ==
  {channels[i].id : i \in {j \in 1..Len(channels) : Contains(channels[j].topic, u)}}

\* The channels that carry exactly the topic line 250 gives u's ticket.
TicketsOf(u) ==
  {channels[i].id : i \in {j \in 1..Len(channels) : channels[j].topic = TicketTopic(u)}}

(***************************************************************************)
(* C1.  At most one open ticket channel per user, with overlapping         *)
(* invocations.  Stated here for the runs in which no call has failed and  *)
(* counting only the channels that carry exactly u's ticket topic (each of *)
(* them embeds u's identifier): the overlap alone breaks it.               *)
(***************************************************************************)
C1_OneOpenTicketPerUser ==
  fails = 0 => \A u \in UserIDs : Cardinality(TicketsOf(u)) <= 1

(***************************************************************************)
(* C2.  Without overlap: while a direct message of a user who owns exactly *)
(* one open ticket channel is handled and its listing succeeds, no step    *)
(* creates a channel, the set of channels the user owns stays that one     *)
(* channel, and the forward is sent into it.                               *)
(***************************************************************************)
ListedOK(e) == Len(trace'[e]) >= 1 /\ trace'[e][1].ok

SendsForwardNow(e) ==
  /\ Len(trace'[e]) = Len(trace[e]) + 1
  /\ trace'[e][Len(trace'[e])].kind = "forward"

C2_ExistingTicketReused ==
  [][\A e \in Invocations :
       ( /\ e <= Len(events)
         /\ IsDirect(e)
         /\ Active(e)
         /\ Cardinality(OwnedBy(events[e].author)) = 1
         /\ ListedOK(e) )
       => /\ inv'[e].pc # "create"
          /\ channels' = channels
          /\ OwnedBy(events[e].author)' = OwnedBy(events[e].author)
          /\ SendsForwardNow(e)
               => trace'[e][Len(trace'[e])].to \in OwnedBy(events[e].author)
    ]_vars

\* Two successive direct messages of one user were both forwarded into the
\* one channel the user owns, and the second created nothing.
C2_Witness ==
  \E e1 \in Received, e2 \in Received :
    /\ e1 < e2
    /\ IsDirect(e1) /\ IsDirect(e2)
    /\ events[e1].author = events[e2].author
    /\ Returned(e1) /\ Returned(e2)
    /\ trace[e2][1].ok
    /\ CallsOf(e2, "GuildChannelCreateComplex") = <<>>
    /\ Len(Delivered(e1, "forward")) = 1
    /\ Len(Delivered(e2, "forward")) = 1
    /\ Delivered(e1, "forward")[1].to = Delivered(e2, "forward")[1].to
    /\ OwnedBy(events[e1].author) = {Delivered(e2, "forward")[1].to}

(***************************************************************************)
(* C3.  Direct messages of users with different identifiers are never      *)
(* forwarded into the same channel.                                        *)
(***************************************************************************)
C3_DistinctUsersDistinctChannels ==
  \A e1 \in Received, e2 \in Received :
    (IsDirect(e1) /\ IsDirect(e2) /\ events[e1].author # events[e2].author)
    => \A i \in 1..Len(Delivered(e1, "forward")),
          j \in 1..Len(Delivered(e2, "forward")) :
         Delivered(e1, "forward")[i].to # Delivered(e2, "forward")[j].to

CreateFailed(e) ==
  \E i \in 1..Len(trace[e]) :
    trace[e][i].op = "GuildChannelCreateComplex" /\ ~trace[e][i].ok

C5_CreateFailureRecoverable ==
  \A e \in Received :
    (IsDirect(e) /\ CreateFailed(e))
    => /\ inv[e].pc # "panic"
       /\ ~crashed
       /\ Sends(e, "forward") = <<>>
       /\ Inserts(e) = <<>>

(***************************************************************************)
(* C6.  A workspace message in a channel that is not a ticket channel      *)
(* (wrong parent category, or name without "ticket-", or topic without     *)
(* "Modmail ID: " or with nothing after it) is a no-op: the invocation     *)
(* only resolves the channel and returns, so it sends nothing, deletes     *)
(* nothing, adds no reaction and writes no log entry; the channel that is  *)
(* no ticket (the first of the workspace) is never deleted.                *)
(***************************************************************************)
NotATicket(ch) ==
  \/ ch.parent # CategoryID
  \/ ~HasPrefix(ch.name, NamePrefix)
  \/ ~HasPrefix(ch.topic, TopicPrefix)
  \/ ch.topic = TopicPrefix

InNonTicketChannel(e) ==
  /\ IsGuild(e)
  /\ events[e].channelID \in ChannelIDs
  /\ NotATicket(ChannelByID(events[e].channelID))

IsCloseInvocation(e) == IsGuild(e) /\ CallsOf(e, "ChannelDelete") # <<>>

C7_CloseDeletesAndNotifiesOnce ==
  \A e \in Received :
    (IsCloseInvocation(e) /\ inv[e].pc \in {"done", "panic"})
    => /\ events[e].channelID \notin ChannelIDs
       /\ Len(Sends(e, "closed")) = 1
       /\ Sends(e, "closed")[1].to = DMChannelOf(inv[e].userID)
       /\ Inserts(e) = <<>>

(***************************************************************************)
(* C8.  When the handler has returned, a delivered forward has exactly one *)
(* log entry: sender "user" and the author for a user's message, sender    *)
(* "staff" and the user the message was delivered to (the one named by the *)
(* channel's topic) for a staff message, and hasFile true exactly when the *)
(* message carried an attachment.                                          *)
(***************************************************************************)
OneEntry(e, sender, uid) ==
  /\ Len(Inserts(e)) = 1
  /\ Inserts(e)[1].kind = sender
  /\ Inserts(e)[1].uid = uid
  /\ Inserts(e)[1].file = (events[e].attach >= 1)

C8_DeliveredForwardLoggedOnce ==
  \A e \in Received :
    Returned(e)
    => /\ (IsDirect(e) /\ Delivered(e, "forward") # <<>>)
            => OneEntry(e, "user", events[e].author)
       /\ (IsGuild(e) /\ Delivered(e, "staff") # <<>>)
            => \E u \in UserIDs :
                 /\ OneEntry(e, "staff", u)
                 /\ Delivered(e, "staff")[1].to = DMChannelOf(u)
                 /\ events[e].channelID \in ChannelIDs
                      => ChannelByID(events[e].channelID).topic = TopicPrefix \o u

\* A user's message with an attachment and a staff message without one were
\* both delivered and logged.
C8_Witness ==
  \E e1 \in Received, e2 \in Received :
    /\ IsDirect(e1) /\ Returned(e1) /\ events[e1].attach = 1
    /\ Delivered(e1, "forward") # <<>>
    /\ Inserts(e1) # <<>> /\ Inserts(e1)[1].file
    /\ IsGuild(e2) /\ Returned(e2) /\ events[e2].attach = 0
    /\ Delivered(e2, "staff") # <<>>
    /\ Inserts(e2) # <<>> /\ ~Inserts(e2)[1].file

(***************************************************************************)
(* C9.  Log entries are written only for delivered messages: when a        *)
(* handler has returned, it has written as many "user" entries as user     *)
(* messages it delivered into a ticket channel, and as many "staff"        *)
(* entries as staff messages it delivered to a user.                       *)
(***************************************************************************)
EntriesOf(e, sender) == SelectSeq(Inserts(e), LAMBDA c : c.kind = sender)

C9_LogOnlyWhenDelivered ==
  \A e \in Received :
    Returned(e)
    => /\ Len(EntriesOf(e, "user")) = Len(Delivered(e, "forward"))
       /\ Len(EntriesOf(e, "staff")) = Len(Delivered(e, "staff"))

(***************************************************************************)
(* C10.  A staff message other than the close command, in a ticket         *)
(* channel: when delivered, it gets the acknowledgment reaction and one    *)
(* "staff" log entry; when delivery fails (resolving the user's channel    *)
(* fails, or the send fails), staff are told so in the channel and no log  *)
(* entry is written.                                                       *)
(***************************************************************************)
DeliveryFailed(e) ==
  \/ \E i \in 1..Len(trace[e]) :
       trace[e][i].op = "UserChannelCreate" /\ ~trace[e][i].ok
  \/ Len(Sends(e, "staff")) > Len(Delivered(e, "staff"))

C10_StaffForwardOutcome ==
  \A e \in Received :
    (IsGuild(e) /\ Returned(e) /\ ~IsCloseInvocation(e))
    => /\ Delivered(e, "staff") # <<>>
            => /\ Len(SelectSeq(CallsOf(e, "MessageReactionAdd"),
                                LAMBDA c : c.kind = "check")) = 1
               /\ Len(EntriesOf(e, "staff")) = 1
       /\ DeliveryFailed(e)
            => /\ Len(Sends(e, "failed")) = 1
               /\ Inserts(e) = <<>>

(***************************************************************************)
(* C11: an event written by the bot itself is discarded with no effect: its *)
(* invocation returns at once having made no call at all (so it creates    *)
(* and deletes no channel, sends no message, adds no reaction and hands no *)
(* entry to the store), and the bot's own posts start no further work:     *)
(* every invocation makes at most the seven calls of the longest path.     *)
(***************************************************************************)
IsOwn(e) == events[e].author = BotID

C11_OwnMessageDiscarded ==
  \A e \in Received :
    /\ IsOwn(e) => trace[e] = <<>> /\ Returned(e)
    /\ Len(trace[e]) <= 7

\* A message is forwarded into a fresh ticket channel by the longest path,
\* and the bot's own post in that channel then comes back as an event.
C11_Witness ==
  \E e1 \in Received, e2 \in Received :
    /\ e1 < e2
    /\ IsDirect(e1) /\ Returned(e1) /\ Len(trace[e1]) = 7
    /\ Delivered(e1, "forward") # <<>>
    /\ IsOwn(e2)
    /\ events[e2].channelID = Delivered(e1, "forward")[1].to

(***************************************************************************)
(* C12: each user's ticket follows only two transitions.  NONE -> OPEN: a  *)
(* step adds a channel with u's ticket topic only as the creation step of  *)
(* a direct message of u, only while u has no open ticket, and the channel *)
(* is fresh (never used before), under the ticket category, with the same  *)
(* topic as any earlier ticket of u.  OPEN -> deleted: a step removes such *)
(* a channel only as the deletion step of a staff close command written in *)
(* that channel.  And no forward of a user's message is delivered into a   *)
(* channel that has been deleted.                                          *)
(***************************************************************************)
Opened(u) == TicketsOf(u)' \ TicketsOf(u)

Deleted(u) == TicketsOf(u) \ TicketsOf(u)'

C12_TicketLifecycle ==
  [][\A u \in UserIDs :
       /\ Opened(u) # {}
            => /\ TicketsOf(u) = {}
               /\ \E e \in Received :
                    /\ IsDirect(e) /\ events[e].author = u
                    /\ inv[e].pc = "create"
                    /\ inv'[e].target \in Opened(u)
               /\ \A id \in Opened(u) :
                    /\ id >= nextId
                    /\ ChannelByID(id)'.parent = CategoryID
       /\ Deleted(u) # {}
            => \E e \in Received :
                 /\ IsGuild(e) /\ IsCloseCommand(events[e].content)
                 /\ inv[e].pc = "delete"
                 /\ Deleted(u) = {events[e].channelID}
       /\ \A e \in Received :
            (SendsForwardNow(e) /\ trace'[e][Len(trace'[e])].ok)
            => trace'[e][Len(trace'[e])].to \in ChannelIDs
    ]_vars

(***************************************************************************)
(* C13: a failed insertion into the store changes nothing the chat         *)
(* participants observe, and is reported in the operator's log only.  The  *)
(* insertion is the last call of its invocation, which returns normally    *)
(* whatever the outcome (so every channel operation, message and reaction  *)
(* precedes it and none depends on it), and for every failed insertion the *)
(* operator's log holds a line.                                            *)
(***************************************************************************)
FailedInserts ==
  {<<e, i>> \in Received \X (1..7) :
     /\ i <= Len(trace[e])
     /\ trace[e][i].op = "InsertOne"
     /\ ~trace[e][i].ok}

InsertFailureUnobserved ==
  \A f \in FailedInserts : f[2] = Len(trace[f[1]]) /\ Returned(f[1])

C13_InsertFailureOnlyInOperatorLog ==
  /\ InsertFailureUnobserved
  /\ oplog >= Cardinality(FailedInserts)

(***************************************************************************)
(* C14: the stored log is append-only.  Across every step the log before   *)
(* is a prefix of the log after, a step adds at most one entry, and no     *)
(* step of a close command's invocation changes the log.                   *)
(***************************************************************************)
IsPrefix(s, t) == Len(s) <= Len(t) /\ SubSeq(t, 1, Len(s)) = s

C14_LogAppendOnly ==
  [][/\ IsPrefix(store, store')
     /\ Len(store') <= Len(store) + 1
     /\ \A e \in Received :
          (IsGuild(e) /\ IsCloseCommand(events[e].content) /\ inv'[e] # inv[e])
          => store' = store
    ]_vars

\* A user's message was logged, the ticket was then closed and its channel
\* deleted, and the entry is still the log.
C14_Witness ==
  \E e1 \in Received, e2 \in Received :
    /\ IsDirect(e1) /\ Returned(e1)
    /\ IsCloseInvocation(e2) /\ Returned(e2)
    /\ CallsOf(e2, "ChannelDelete")[1].ok
    /\ Delivered(e2, "closed") # <<>>
    /\ store = <<[sender |-> "user", hasFile |-> HasFile(events[e1]),
                  userID |-> events[e1].author]>>

(***************************************************************************)
(* C15: a ticket channel is created only by the direct message of a user   *)
(* for whom the scan found no channel (the listing failed or no listed     *)
(* topic held the user's identifier), under the configured ticket category *)
(* and with topic "Modmail ID: " followed by the sender's identifier.  The *)
(* creation notice is sent once, into the new channel, by the invocation   *)
(* that created it and before that invocation's forward; an invocation     *)
(* that created no channel sends no creation notice.                       *)
(***************************************************************************)
Created(e) ==
  SelectSeq(CallsOf(e, "GuildChannelCreateComplex"), LAMBDA c : c.ok)

\* The position in invocation e's call history of its first send of a kind.
PositionOf(e, kind) ==
  CHOOSE i \in 1..Len(trace[e]) :
    /\ trace[e][i].kind = kind
    /\ \A j \in 1..(i - 1) : trace[e][j].kind # kind

NoticeWithCreation ==
  \A e \in Received :
    /\ Created(e) = <<>> => Sends(e, "new") = <<>>
    /\ Created(e) # <<>>
         => /\ IsDirect(e)
            /\ Len(Created(e)) = 1
            /\ Len(Sends(e, "new")) <= 1
            /\ \A n \in Range(Sends(e, "new")) : n.to = Created(e)[1].to
            /\ Sends(e, "forward") # <<>>
                 => /\ Len(Sends(e, "new")) = 1
                    /\ PositionOf(e, "new") < PositionOf(e, "forward")

CreationStep ==
  \A e \in Received :
    /\ (inv[e].pc = "list" /\ inv'[e].pc = "create")
         => ~ListedOK(e) \/ OwnedBy(events[e].author) = {}
    /\ (inv'[e] # inv[e] /\ channels' # channels /\ Len(channels') >= Len(channels))
         => /\ IsDirect(e)
            /\ inv[e].pc = "create" /\ inv[e].target = NoChannel
            /\ trace[e][1].op = "GuildChannels"
            /\ Len(channels') = Len(channels) + 1
            /\ SubSeq(channels', 1, Len(channels)) = channels
            /\ LET new == channels'[Len(channels')]
               IN  /\ new.id \notin ChannelIDs
                   /\ new.parent = CategoryID
                   /\ new.topic = TopicPrefix \o events[e].author
                   /\ inv'[e].target = new.id

C15_CreatedOnceNoticedOnce == []NoticeWithCreation /\ [][CreationStep]_vars

\* One direct message created a channel, announced it and was forwarded
\* into it; the user's next message reused the channel without a notice.
C15_Witness ==
  \E e1 \in Received, e2 \in Received :
    /\ IsDirect(e1) /\ Returned(e1) /\ Created(e1) # <<>>
    /\ Delivered(e1, "new") # <<>> /\ Delivered(e1, "forward") # <<>>
    /\ IsDirect(e2) /\ Returned(e2) /\ Created(e2) = <<>>
    /\ events[e2].author = events[e1].author
    /\ Delivered(e2, "forward") # <<>>
    /\ Delivered(e2, "forward")[1].to = Created(e1)[1].to

(***************************************************************************)
(* C16: routing is symmetric.  Every channel into which case A delivers a  *)
(* user's message is a channel case B accepts as that user's ticket: while *)
(* the channel exists it is under the ticket category, its name starts     *)
(* with "ticket-", and the identifier case B extracts from its topic is    *)
(* exactly the author of the message.                                      *)
(***************************************************************************)
C16_RoutingSymmetric ==
  \A e \in Received :
    IsDirect(e) =>
      \A f \in Range(Delivered(e, "forward")) :
        f.to \in ChannelIDs
        => /\ IsTicketChannel(ChannelByID(f.to))
           /\ ExtractUserID(ChannelByID(f.to).topic) = events[e].author

(***************************************************************************)
(* C17: when the listing of the workspace's channels fails for a direct    *)
(* message of a user who already has an open ticket channel, the creation  *)
(* step of that message adds no second ticket channel.                     *)
(***************************************************************************)
ListFailed(e) ==
  /\ Len(trace[e]) >= 1
  /\ trace[e][1].op = "GuildChannels"
  /\ ~trace[e][1].ok

C17_ListFailureCreatesNothing ==
  [][\A e \in Received :
       ( /\ IsDirect(e)
         /\ ListFailed(e)
         /\ inv[e].pc = "create"
         /\ inv'[e] # inv[e]
         /\ TicketsOf(events[e].author) # {} )
       => channels' = channels
    ]_vars

(***************************************************************************)
(* C18: the closing notice is sent to the ticket's owner only if the       *)
(* channel was actually deleted: an invocation that has sent the notice    *)
(* has a successful ChannelDelete call, and the channel is gone.           *)
(***************************************************************************)
C18_NoticeOnlyAfterDeletion ==
  \A e \in Received :
    Sends(e, "closed") # <<>>
    => /\ \E d \in Range(CallsOf(e, "ChannelDelete")) : d.ok
       /\ events[e].channelID \notin ChannelIDs

(***************************************************************************)
(* C19: the "Ticket Created" acknowledgement is sent to the user only when *)
(* a channel was actually created by that direct message: never when the   *)
(* creation failed and never when an existing channel was reused.          *)
(***************************************************************************)
C19_AckOnlyAfterCreation ==
  \A e \in Received : Sends(e, "created") # <<>> => Created(e) # <<>>

(***************************************************************************)
(* The log-channel variant of the handler (src/unnamed/part_000): direct   *)
(* messages are copied into one staff channel, LogChannelID, and staff     *)
(* answer there with "!reply <user> <text>".  It runs as a program of its  *)
(* own, SpecLog, over the same state; it never touches the channel list.   *)
(***************************************************************************)
LogChannelID == 9

ReplyPrefix == <<"!","r","e","p","l","y"," ">>

\* The position of the first separator in s, 0 when there is none.
Index(s, sep) ==
  IF \E i \in 1..Len(s) : s[i] = sep
  THEN CHOOSE i \in 1..Len(s) : s[i] = sep /\ \A j \in 1..(i - 1) : s[j] # sep
  ELSE 0

\* strings.SplitN(s, sep, n) for n > 0: at most n parts, the last one the
\* unsplit remainder.
RECURSIVE SplitN(_, _, _)
SplitN(s, sep, n) ==
  IF n <= 1 \/ Index(s, sep) = 0 THEN <<s>>
  ELSE <<SubSeq(s, 1, Index(s, sep) - 1)>>
       \o SplitN(SubSeq(s, Index(s, sep) + 1, Len(s)), sep, n - 1)

ReplyParts(content) == SplitN(content, " ", 3)

\* What staff write: a full reply to user 1, a reply to an unknown user, a
\* reply with an empty user field, two commands that lack a part, and chat.
LogContents ==
  { ReplyPrefix \o <<"1"," ","o","k"," ","g","o">>,
    ReplyPrefix \o <<"5"," ","o","k">>,
    ReplyPrefix \o <<" ","o","k">>,
    ReplyPrefix \o <<"1">>,
    ReplyPrefix,
    Hi }

\* Lines 92-94, 96, 105-110: where the handler goes for a message.
DispatchLog(m) ==
  IF m.author = BotID THEN "done"
  ELSE IF m.guildID = "" THEN "incoming"
  ELSE IF m.channelID = LogChannelID /\ HasPrefix(m.content, ReplyPrefix)
       THEN IF Len(ReplyParts(m.content)) < 3 THEN "usage" ELSE "openDM"
  ELSE "done"

StartLog(m) ==
  /\ ~crashed
  /\ Len(events) < MaxEvents
  /\ events' = Append(events, m)
  /\ inv' = Append(inv, [pc |-> DispatchLog(m), target |-> NoChannel,
                         userID |-> <<>>, dm |-> NoChannel])
  /\ trace' = Append(trace, <<>>)
  /\ UNCHANGED <<oplog, channels, nextId, store, crashed, fails>>

ReceiveDirectLog ==
  \E u \in 1..Len(Users) :
    StartLog([content |-> Hi, attach |-> 0, guildID |-> "",
              author |-> Users[u].id, username |-> Users[u].name,
              channelID |-> DMChannelOf(Users[u].id)])

ReceiveGuildLog ==
  \E c \in {LogChannelID, 1}, t \in LogContents :
    StartLog([content |-> t, attach |-> 0, guildID |-> GuildID,
              author |-> StaffID, username |-> <<"m","o","d">>,
              channelID |-> c])

ReceiveOwnLog ==
  \E c \in {LogChannelID, DMChannelOf(Users[1].id)} :
    StartLog([content |-> Hi, attach |-> 0,
              guildID |-> IF c = LogChannelID THEN GuildID ELSE "",
              author |-> BotID, username |-> <<"b","o","t">>,
              channelID |-> c])

\* Lines 126-139: the entry is handed to InsertOne; an error is printed to
\* the operator's log and otherwise ignored.
logMessage(e, uid, user, msgType, pc) ==
  \E ok \in Outcomes(TRUE) :
    /\ Goto(e, InsertCall(uid, msgType, FALSE, ok), pc)
    /\ store' = IF ok
         THEN Append(store, [userID |-> uid, username |-> user,
                             msgType |-> msgType])
         ELSE store
    /\ oplog' = IF ok THEN oplog ELSE oplog + 1
    /\ fails' = Charge(TRUE, ok)

\* One ChannelMessageSend whose result the handler ignores.
SendLog(e, to, kind, pc) ==
  \E ok \in Outcomes(TRUE) :
    /\ Goto(e, Call("ChannelMessageSend", to, kind, ok), pc)
    /\ fails' = Charge(TRUE, ok)

\* Line 97.
LogIncoming(e) ==
  /\ At(e, "incoming")
  /\ logMessage(e, events[e].author, events[e].username, "incoming", "post")
  /\ UNCHANGED <<channels, nextId, events, crashed>>

\* Lines 98-100.
PostToLogChannel(e) ==
  /\ At(e, "post")
  /\ SendLog(e, LogChannelID, "modmail", "sent")
  /\ UNCHANGED <<oplog, channels, nextId, events, store, crashed>>

\* Lines 101-102.
AckSent(e) ==
  /\ At(e, "sent")
  /\ SendLog(e, events[e].channelID, "sentAck", "done")
  /\ UNCHANGED <<oplog, channels, nextId, events, store, crashed>>

\* Lines 107-110.
UsageWarning(e) ==
  /\ At(e, "usage")
  /\ SendLog(e, events[e].channelID, "usage", "done")
  /\ UNCHANGED <<oplog, channels, nextId, events, store, crashed>>

\* Lines 112-113: the direct channel of the user named by the second part.
OpenReplyDM(e) ==
  /\ At(e, "openDM")
  /\ LET userID == ReplyParts(events[e].content)[2]
         can == userID \in UserIDs
     IN  \E ok \in Outcomes(can) :
           /\ Advance(e, Call("UserChannelCreate",
                              IF ok THEN DMChannelOf(userID) ELSE NoChannel,
                              "", ok),
                      IF ok THEN "reply" ELSE "notFound", NoChannel, userID,
                      IF ok THEN DMChannelOf(userID) ELSE NoChannel)
           /\ fails' = Charge(can, ok)
  /\ UNCHANGED <<oplog, channels, nextId, events, store, crashed>>

\* Lines 114-117.
UserNotFound(e) ==
  /\ At(e, "notFound")
  /\ SendLog(e, events[e].channelID, "notFound", "done")
  /\ UNCHANGED <<oplog, channels, nextId, events, store, crashed>>

\* Line 119: the reply goes to the user; only a delivered reply goes on.
SendReply(e) ==
  /\ At(e, "reply")
  /\ \E ok \in Outcomes(TRUE) :
       /\ Goto(e, Call("ChannelMessageSend", inv[e].dm, "reply", ok),
               IF ok THEN "logReply" ELSE "done")
       /\ fails' = Charge(TRUE, ok)
  /\ UNCHANGED <<oplog, channels, nextId, events, store, crashed>>

\* Line 120.
LogReply(e) ==
  /\ At(e, "logReply")
  /\ logMessage(e, inv[e].userID, <<"S","T","A","F","F">>, "reply", "replyAck")
  /\ UNCHANGED <<channels, nextId, events, crashed>>

\* Line 121.
AckReply(e) ==
  /\ At(e, "replyAck")
  /\ SendLog(e, events[e].channelID, "replySent", "done")
  /\ UNCHANGED <<oplog, channels, nextId, events, store, crashed>>

ReceiveLog == ReceiveDirectLog \/ ReceiveGuildLog \/ ReceiveOwnLog

HandleLog ==
  \/ \E e \in Invocations : LogIncoming(e)
  \/ \E e \in Invocations : PostToLogChannel(e)
  \/ \E e \in Invocations : AckSent(e)
  \/ \E e \in Invocations : UsageWarning(e)
  \/ \E e \in Invocations : OpenReplyDM(e)
  \/ \E e \in Invocations : UserNotFound(e)
  \/ \E e \in Invocations : SendReply(e)
  \/ \E e \in Invocations : LogReply(e)
  \/ \E e \in Invocations : AckReply(e)

NextLog == ReceiveLog \/ HandleLog

SpecLog == Init /\ [][NextLog]_vars

(***************************************************************************)
(* C20: in the log-channel variant, once the handler has returned: a       *)
(* "reply" log entry was written if and only if the staff reply was        *)
(* delivered to the user; an "incoming" entry was written, and the user    *)
(* was told "Sent to staff!", only if the direct message was delivered     *)
(* into the staff log channel; and a "!reply" with fewer than three        *)
(* space-separated parts sent the usage warning and did nothing else (no   *)
(* direct channel opened, no message to a user, no log entry).             *)
(***************************************************************************)
EntriesOfType(e, msgType) == SelectSeq(Inserts(e), LAMBDA c : c.kind = msgType)

IsShortReply(e) ==
  /\ IsGuild(e)
  /\ events[e].channelID = LogChannelID
  /\ HasPrefix(events[e].content, ReplyPrefix)
  /\ Len(ReplyParts(events[e].content)) < 3

ReplyLoggedIffDelivered ==
  \A e \in Received :
    Returned(e) =>
      (EntriesOfType(e, "reply") # <<>> <=> Delivered(e, "reply") # <<>>)

IncomingOnlyIfPosted ==
  \A e \in Received :
    (Returned(e) /\ (EntriesOfType(e, "incoming") # <<>> \/ Sends(e, "sentAck") # <<>>))
    => Delivered(e, "modmail") # <<>>

ShortReplyOnlyWarns ==
  \A e \in Received :
    (Returned(e) /\ IsShortReply(e))
    => /\ Len(trace[e]) = 1
       /\ Len(Sends(e, "usage")) = 1
       /\ Sends(e, "usage")[1].to = LogChannelID

C20_LogVariantEntriesMatchDelivery ==
  /\ ReplyLoggedIffDelivered
  /\ IncomingOnlyIfPosted
  /\ ShortReplyOnlyWarns

====
